---- MODULE Spec2Model ----
(***************************************************************************)
(* Load balancing calculator (load_balancer.py) as a state machine.       *)
(*                                                                         *)
(* The caller owns one ordered collection of ZoneLoad records (zones) and  *)
(* passes it by reference to the module's functions.  Every function is    *)
(* one action; its outcome (the value returned or the exception raised)   *)
(* is recorded in calls.                                                   *)
(*                                                                         *)
(* Loads are Python floats.  Here a load is an integer number of           *)
(* hundredths of a kW, and every load the model draws is a multiple of     *)
(* 0.25 kW, so that the float sums are exact and total / len(zones) is an  *)
(* exact binary fraction whenever it lies half way between two hundredths  *)
(* (for up to 9 zones): on these inputs round(x, 2) is the exact           *)
(* round-half-to-even of the rational x, which Round2 computes.  The sum   *)
(* of arbitrary floats, where the rounding of the partial sums shows, is   *)
(* modelled bit by bit in the second specification, SpecFloat.             *)
(***************************************************************************)
EXTENDS Integers, Sequences, FiniteSets, TLC

VARIABLES
    zones,      \* the caller's list of ZoneLoad records, in the caller's order
    construct,  \* the last ZoneLoad(name, load) evaluated: its arguments and outcome
    calls,      \* per function, the outcome of its last call on the present list
    again       \* the last step called a function already called on this list

vars == <<zones, construct, calls, again>>

\* Bound of the model: the caller builds collections of at most MaxZones zones.
MaxZones == 3

\* Hundredths per kW: the resolution of round(x, 2).
Centi == 100

MAX_LOAD_PER_ZONE == 100 * Centi
IDEAL_VARIANCE == 15 * Centi
\* The literal 1.0 of `abs(diff) < 1.0`.
TOLERANCE == 1 * Centi

ZoneLoadRec(name, load) == [name |-> name, load |-> load]

\* The arguments the caller constructs zones from: the boundary loads 0, 100.0
\* and its neighbours, a pair of equal names, the empty name, negative loads.
ZonePool ==
    { <<"", 0>>, <<"Zone A", 9900>>, <<"Zone B", 10000>>, <<"Zone B", 10025>>,
      <<"Zone C", 10100>>, <<"Zone D", -25>>, <<"", -100>> }

\* sample_zones of the __main__ block.
sample_zones ==
    << ZoneLoadRec("Zone A", 12000), ZoneLoadRec("Zone B", 8000),
       ZoneLoadRec("Zone C", 9500), ZoneLoadRec("Zone D", 4000) >>

----------------------------------------------------------------------------
\* Outcomes of a call.

NotCalled == [status |-> "not_called"]
Returned(v) == [status |-> "returned", value |-> v]
Raised(type, msg) == [status |-> "raised", type |-> type, msg |-> msg]

OpNames ==
    { "detect_overloads", "calculate_total_load", "calculate_ideal_load",
      "recommend_redistribution", "generate_report" }

----------------------------------------------------------------------------
\* Number formatting and rounding.

Abs(x) == IF x < 0 THEN -x ELSE x

\* round(num / den, 2) in hundredths, for num in hundredths and den > 0:
\* the nearest integer to num / den, a tie going to the even neighbour.
Round2(num, den) ==
    LET q == num \div den
        r == num % den
    IN  IF 2 * r < den THEN q
        ELSE IF 2 * r > den THEN q + 1
        ELSE IF q % 2 = 0 THEN q ELSE q + 1

\* str() of a non-negative float holding c hundredths: "120.0", "83.75", "100.5".
FormatFloat(c) ==
    LET whole == c \div Centi
        frac == c % Centi
    IN  ToString(whole) \o "." \o
        ( IF frac % 10 = 0 THEN ToString(frac \div 10)
          ELSE IF frac < 10 THEN "0" \o ToString(frac)
          ELSE ToString(frac) )

----------------------------------------------------------------------------
\* ZoneLoad.__init__

\* ZoneLoad.__init__ without its check of the load.
ZoneLoad_init_Unchecked(name, load) == Returned(ZoneLoadRec(name, load))

ZoneLoad_init(name, load) ==
    IF load < 0
    THEN Raised("ValueError", "Load for zone '" \o name \o "' cannot be negative.")
    ELSE Returned(ZoneLoadRec(name, load))

----------------------------------------------------------------------------
\* Core logic.

\* detect_overloads comparing with >= instead of >.
detect_overloads_Inclusive(zs) == SelectSeq(zs, LAMBDA z : z.load >= MAX_LOAD_PER_ZONE)

detect_overloads(zs) == SelectSeq(zs, LAMBDA z : z.load > MAX_LOAD_PER_ZONE)

RECURSIVE SumLoads(_, _)
\* sum(z.load for z in zones): left to right from 0.
SumLoads(zs, acc) ==
    IF zs = <<>> THEN acc ELSE SumLoads(Tail(zs), acc + Head(zs).load)

calculate_total_load(zs) == SumLoads(zs, 0)

\* calculate_ideal_load truncating instead of rounding, and returning 0 for no zones.
calculate_ideal_load_Truncating(zs) ==
    IF Len(zs) = 0 THEN Returned(0)
    ELSE Returned(calculate_total_load(zs) \div Len(zs))

calculate_ideal_load(zs) ==
    LET total == calculate_total_load(zs)
    IN  IF Len(zs) = 0
        THEN Raised("ZeroDivisionError", "division by zero")
        ELSE Returned(Round2(total, Len(zs)))

RECURSIVE Adjust_Inclusive(_, _, _)
\* The loop of recommend_redistribution skipping with <= instead of <.
Adjust_Inclusive(zs, ideal, adjustments) ==
    IF zs = <<>> THEN adjustments
    ELSE LET z == Head(zs)
             diff == Round2(z.load - ideal, 1)
         IN  IF Abs(diff) <= TOLERANCE
             THEN Adjust_Inclusive(Tail(zs), ideal, adjustments)
             ELSE IF diff > 0
             THEN Adjust_Inclusive(Tail(zs), ideal,
                         Append(adjustments,
                                <<z.name, "Reduce load by " \o FormatFloat(diff) \o " kW">>))
             ELSE Adjust_Inclusive(Tail(zs), ideal,
                         Append(adjustments,
                                <<z.name, "Increase load by " \o FormatFloat(-diff) \o " kW">>))

RECURSIVE Adjust_Prepending(_, _, _)
\* The loop of recommend_redistribution inserting at the front of the list.
Adjust_Prepending(zs, ideal, adjustments) ==
    IF zs = <<>> THEN adjustments
    ELSE LET z == Head(zs)
             diff == Round2(z.load - ideal, 1)
         IN  IF Abs(diff) < TOLERANCE
             THEN Adjust_Prepending(Tail(zs), ideal, adjustments)
             ELSE IF diff > 0
             THEN Adjust_Prepending(Tail(zs), ideal,
                         << <<z.name, "Reduce load by " \o FormatFloat(diff) \o " kW">> >>
                             \o adjustments)
             ELSE Adjust_Prepending(Tail(zs), ideal,
                         << <<z.name, "Increase load by " \o FormatFloat(-diff) \o " kW">> >>
                             \o adjustments)

RECURSIVE Adjust(_, _, _)
\* The loop of recommend_redistribution over the zones not yet visited.
Adjust(zs, ideal, adjustments) ==
    IF zs = <<>> THEN adjustments
    ELSE LET z == Head(zs)
             diff == Round2(z.load - ideal, 1)
         IN  IF Abs(diff) < TOLERANCE
             THEN Adjust(Tail(zs), ideal, adjustments)
             ELSE IF diff > 0
             THEN Adjust(Tail(zs), ideal,
                         Append(adjustments,
                                <<z.name, "Reduce load by " \o FormatFloat(diff) \o " kW">>))
             ELSE Adjust(Tail(zs), ideal,
                         Append(adjustments,
                                <<z.name, "Increase load by " \o FormatFloat(-diff) \o " kW">>))

recommend_redistribution(zs) ==
    LET ideal == calculate_ideal_load(zs)
    IN  IF ideal.status = "raised" THEN ideal
        ELSE Returned(Adjust(zs, ideal.value, <<>>))

----------------------------------------------------------------------------
\* Reporting helpers.  The two glyphs of the report (the warning sign and the
\* check mark) are written [!] and [v].

RECURSIVE ZoneLines(_, _)
\* for z in zones: report_lines.append(f"  - {z.name}: {z.load} kW")
ZoneLines(zs, report_lines) ==
    IF zs = <<>> THEN report_lines
    ELSE ZoneLines(Tail(zs),
                   Append(report_lines,
                          "  - " \o Head(zs).name \o ": " \o FormatFloat(Head(zs).load) \o " kW"))

RECURSIVE OverloadLines(_, _)
\* for z in overloads: report_lines.append(f"   - {z.name} ({z.load} kW)")
OverloadLines(zs, report_lines) ==
    IF zs = <<>> THEN report_lines
    ELSE OverloadLines(Tail(zs),
                       Append(report_lines,
                              "   - " \o Head(zs).name \o " (" \o FormatFloat(Head(zs).load) \o " kW)"))

RECURSIVE AdjustmentLines(_, _)
\* for zone, action in adjustments: report_lines.append(f"   - {zone}: {action}")
AdjustmentLines(adjustments, report_lines) ==
    IF adjustments = <<>> THEN report_lines
    ELSE AdjustmentLines(Tail(adjustments),
                         Append(report_lines,
                                "   - " \o Head(adjustments)[1] \o ": " \o Head(adjustments)[2]))

RECURSIVE Join(_, _)
\* sep.join(lines)
Join(lines, sep) ==
    IF lines = <<>> THEN ""
    ELSE IF Len(lines) = 1 THEN Head(lines)
    ELSE Head(lines) \o sep \o Join(Tail(lines), sep)

\* report_lines with the two closing sections chosen by the other's condition.
ReportLines_Crossed(zs) ==
    LET overloads == detect_overloads(zs)
        ideal == calculate_ideal_load(zs).value
        adjustments == recommend_redistribution(zs).value
        l1 == << "----- Load Balancing Analysis Report -----\n", "Zone Loads:" >>
        l2 == ZoneLines(zs, l1)
        l3 == Append(l2, "\nTotal Load: " \o FormatFloat(calculate_total_load(zs)) \o " kW")
        l4 == Append(l3, "Ideal Load Per Zone: " \o FormatFloat(ideal) \o " kW\n")
        l5 == IF adjustments # <<>>
              THEN OverloadLines(overloads, Append(l4, "[!]  Overloaded Zones Detected:"))
              ELSE Append(l4, "No overloaded zones detected. [v]")
    IN  IF overloads # <<>>
        THEN AdjustmentLines(adjustments, Append(l5, "\nRecommended Adjustments:"))
        ELSE Append(l5, "\nLoad distribution is optimal. [v]")

\* report_lines of generate_report just before the join, for a non-empty zs.
ReportLines(zs) ==
    LET overloads == detect_overloads(zs)
        ideal == calculate_ideal_load(zs).value
        l1 == << "----- Load Balancing Analysis Report -----\n", "Zone Loads:" >>
        l2 == ZoneLines(zs, l1)
        l3 == Append(l2, "\nTotal Load: " \o FormatFloat(calculate_total_load(zs)) \o " kW")
        l4 == Append(l3, "Ideal Load Per Zone: " \o FormatFloat(ideal) \o " kW\n")
        l5 == IF overloads # <<>>
              THEN OverloadLines(overloads, Append(l4, "[!]  Overloaded Zones Detected:"))
              ELSE Append(l4, "No overloaded zones detected. [v]")
        adjustments == recommend_redistribution(zs).value
    IN  IF adjustments # <<>>
        THEN AdjustmentLines(adjustments, Append(l5, "\nRecommended Adjustments:"))
        ELSE Append(l5, "\nLoad distribution is optimal. [v]")

generate_report(zs) ==
    LET ideal == calculate_ideal_load(zs)
    IN  IF ideal.status = "raised" THEN ideal
        ELSE Returned(Join(ReportLines(zs), "\n"))

\* The outcome of calling the function named op on zs.
Outcome(op, zs) ==
    CASE op = "detect_overloads" -> Returned(detect_overloads(zs))
      [] op = "calculate_total_load" -> Returned(calculate_total_load(zs))
      [] op = "calculate_ideal_load" -> calculate_ideal_load(zs)
      [] op = "recommend_redistribution" -> recommend_redistribution(zs)
      [] op = "generate_report" -> generate_report(zs)

----------------------------------------------------------------------------
\* State machine.

Init ==
    /\ zones = <<>>
    /\ construct = [args |-> <<>>, outcome |-> NotCalled]
    /\ calls = [op \in OpNames |-> NotCalled]
    /\ again = FALSE

\* The caller evaluates ZoneLoad(name, load) and, when it returns, appends the
\* new record to its collection; when it raises, nothing is added.
Construct(name, load) ==
    /\ Len(zones) < MaxZones
    /\ LET outcome == ZoneLoad_init(name, load)
       IN  /\ construct' = [args |-> <<name, load>>, outcome |-> outcome]
           /\ IF outcome.status = "returned"
              THEN /\ zones' = Append(zones, outcome.value)
                   /\ calls' = [op \in OpNames |-> NotCalled]
              ELSE UNCHANGED <<zones, calls>>
    /\ again' = FALSE

\* Call, had detect_overloads removed the zones it reports from the list.
Call_Removing(op) ==
    /\ calls' = [calls EXCEPT ![op] = Outcome(op, zones)]
    /\ again' = (calls[op].status # "not_called")
    /\ zones' = IF op = "detect_overloads"
                THEN SelectSeq(zones, LAMBDA z : ~(z.load > MAX_LOAD_PER_ZONE))
                ELSE zones
    /\ UNCHANGED construct

\* A call of one of the module's functions on the caller's collection.  None
\* of them assigns to the list or to a zone.
Call(op) ==
    /\ calls' = [calls EXCEPT ![op] = Outcome(op, zones)]
    /\ again' = (calls[op].status # "not_called")
    /\ UNCHANGED <<zones, construct>>

DetectOverloads == Call("detect_overloads")
CalculateTotalLoad == Call("calculate_total_load")
CalculateIdealLoad == Call("calculate_ideal_load")
RecommendRedistribution == Call("recommend_redistribution")
GenerateReport == Call("generate_report")

\* The __main__ block: builds sample_zones and prints generate_report of it.
Main ==
    /\ zones = <<>>
    /\ zones' = sample_zones
    /\ construct' = [args |-> <<"Zone D", 4000>>, outcome |-> ZoneLoad_init("Zone D", 4000)]
    /\ calls' = [op \in OpNames |->
                   IF op = "generate_report" THEN generate_report(sample_zones) ELSE NotCalled]
    /\ again' = FALSE

Next ==
    \/ \E p \in ZonePool : Construct(p[1], p[2])
    \/ DetectOverloads
    \/ CalculateTotalLoad
    \/ CalculateIdealLoad
    \/ RecommendRedistribution
    \/ GenerateReport
    \/ Main

Spec == Init /\ [][Next]_vars

----------------------------------------------------------------------------
\* tests/test_dashboard_ui.py: what the dashboard is expected to show per zone.

expected_values ==
    ("A" :> [load |-> 12000, status |-> "OVERLOAD"]) @@
    ("B" :> [load |-> 8000, status |-> "OK"]) @@
    ("C" :> [load |-> 9500, status |-> "OVERLOAD"]) @@
    ("D" :> [load |-> 4000, status |-> "OK"])

----------------------------------------------------------------------------
\* Properties.

Called(op) == calls[op].status # "not_called"
ReturnedBy(op) == calls[op].status = "returned"

\* r is num / den rounded to the nearest integer, a tie going to the even one.
IsRound2(r, num, den) ==
    /\ 2 * Abs(r * den - num) <= den
    /\ 2 * Abs(r * den - num) = den => r % 2 = 0

\* The sum of the loads of zs, whatever the order they are added in.
LoadSum(zs) ==
    LET S[k \in 0..Len(zs)] == IF k = 0 THEN 0 ELSE S[k - 1] + zs[Len(zs) + 1 - k].load
    IN  S[Len(zs)]

\* The positions of zs selected by Keep, and the rank of position i among them.
Kept(zs, Keep(_)) == { i \in 1..Len(zs) : Keep(zs[i]) }
Rank(I, i) == Cardinality({ j \in I : j <= i })

\* sub is the subsequence of zs at the positions I, each mapped by F.
IsImageOf(sub, zs, I, F(_)) ==
    /\ Len(sub) = Cardinality(I)
    /\ \A i \in I : sub[Rank(I, i)] = F(i)

\* C1: ZoneLoad(name, load) returns a record of that name and load when
\* load >= 0, also for load 0 and the empty name, and the caller's collection
\* gets it; it raises ValueError when load < 0 and no record is added; every
\* zone that exists has load >= 0.
C1_ConstructValidates ==
    /\ [](/\ \A i \in 1..Len(zones) : zones[i].load >= 0
          /\ construct.outcome.status # "not_called" =>
               LET name == construct.args[1]
                   load == construct.args[2]
               IN  IF load >= 0
                   THEN /\ construct.outcome = Returned([name |-> name, load |-> load])
                        /\ zones # <<>>
                        /\ zones[Len(zones)] = [name |-> name, load |-> load]
                   ELSE /\ construct.outcome.status = "raised"
                        /\ construct.outcome.type = "ValueError")
    /\ [][construct'.outcome.status = "raised" => zones' = zones]_vars

C1_Witness ==
    /\ construct.outcome.status = "raised"
    /\ construct.args[2] < 0
    /\ \E i \in 1..Len(zones) : zones[i] = [name |-> "", load |-> 0]

\* C2: detect_overloads returns exactly the zones with load > 100.0, in input
\* order, duplicates kept; a zone at exactly 100.0 is never returned; the
\* result is empty for no zones.
C2_DetectOverloads ==
    Called("detect_overloads") =>
        LET r == calls["detect_overloads"].value
            I == Kept(zones, LAMBDA z : z.load > 100 * Centi)
        IN  /\ ReturnedBy("detect_overloads")
            /\ IsImageOf(r, zones, I, LAMBDA i : zones[i])
            /\ \A k \in 1..Len(r) : r[k].load # 100 * Centi
            /\ zones = <<>> => r = <<>>

C2_Witness ==
    /\ ReturnedBy("detect_overloads")
    /\ Len(zones) = 3
    /\ zones[1] = zones[3]
    /\ zones[1].load > 100 * Centi
    /\ zones[2].load = 100 * Centi
    /\ Len(calls["detect_overloads"].value) = 2

\* C3: for the example zones detect_overloads returns [Zone A, Zone C], the
\* classification the dashboard test expects (A and C OVERLOAD, B and D OK).
C3_ExampleOverloads ==
    (zones = sample_zones /\ Called("detect_overloads")) =>
        LET r == calls["detect_overloads"].value
        IN  /\ r = << sample_zones[1], sample_zones[3] >>
            /\ \A id \in DOMAIN expected_values :
                 (expected_values[id].status = "OVERLOAD")
                   <=> (\E k \in 1..Len(r) : r[k].name = "Zone " \o id)

\* The difference of zone i of the collection from the ideal load.
Diff(i) == zones[i].load - calculate_ideal_load(zones).value

Directive(d) ==
    IF d > 0 THEN "Reduce load by " \o FormatFloat(d) \o " kW"
    ELSE "Increase load by " \o FormatFloat(-d) \o " kW"

\* C4: recommend_redistribution emits, in input order, one pair (name,
\* directive) for each zone with |diff| >= 1.0 and none for the others:
\* "Reduce load by diff kW" when diff > 0, "Increase load by |diff| kW" when
\* diff < 0, every amount positive; on the example zones A Reduce 36.25,
\* B Increase 3.75, C Reduce 11.25, D Increase 43.75.
C4_Recommend ==
    (Called("recommend_redistribution") /\ zones # <<>>) =>
        LET r == calls["recommend_redistribution"].value
            I == { i \in 1..Len(zones) : Abs(Diff(i)) >= 1 * Centi }
        IN  /\ ReturnedBy("recommend_redistribution")
            /\ IsImageOf(r, zones, I, LAMBDA i : <<zones[i].name, Directive(Diff(i))>>)
            /\ \A i \in I : Abs(Diff(i)) > 0
            /\ zones = sample_zones =>
                 r = << <<"Zone A", "Reduce load by 36.25 kW">>,
                        <<"Zone B", "Increase load by 3.75 kW">>,
                        <<"Zone C", "Reduce load by 11.25 kW">>,
                        <<"Zone D", "Increase load by 43.75 kW">> >>

C4_Witness ==
    /\ zones = sample_zones
    /\ ReturnedBy("recommend_redistribution")
    /\ Len(calls["recommend_redistribution"].value) = 4

\* C5 as stated: a zone whose diff is exactly 1.0 or -1.0 gets no directive.
C5_ExactlyOneNotAdjusted ==
    ReturnedBy("recommend_redistribution") =>
        \A i \in 1..Len(zones) :
            Abs(Diff(i)) = 1 * Centi =>
                ~ \E k \in 1..Len(calls["recommend_redistribution"].value) :
                      calls["recommend_redistribution"].value[k][1] = zones[i].name

\* C5 amended: a zone whose diff is exactly 1.0 is adjusted with "Reduce load
\* by 1.0 kW", one whose diff is exactly -1.0 with "Increase load by 1.0 kW";
\* only |diff| < 1.0 gets no directive.
C5_ExactlyOneAdjusted ==
    ReturnedBy("recommend_redistribution") =>
        LET r == calls["recommend_redistribution"].value
            I == { i \in 1..Len(zones) : ~(Abs(Diff(i)) < 1 * Centi) }
        IN  /\ Len(r) = Cardinality(I)
            /\ \A i \in I :
                 /\ Diff(i) = 1 * Centi =>
                      r[Rank(I, i)] = <<zones[i].name, "Reduce load by 1.0 kW">>
                 /\ Diff(i) = -1 * Centi =>
                      r[Rank(I, i)] = <<zones[i].name, "Increase load by 1.0 kW">>

C5_Witness ==
    /\ ReturnedBy("recommend_redistribution")
    /\ \E i, j, k \in 1..Len(zones) :
         /\ Diff(i) = 1 * Centi
         /\ Diff(j) = -1 * Centi
         /\ Abs(Diff(k)) < 1 * Centi
    /\ Len(calls["recommend_redistribution"].value) = 2

\* The pairs recommend_redistribution is to return for zs and the ideal load
\* ideal, written position by position.
ExpectedAdjustments(zs, ideal) ==
    LET I == { i \in 1..Len(zs) : Abs(zs[i].load - ideal) >= 1 * Centi }
        At(k) == CHOOSE i \in I : Rank(I, i) = k
    IN  [k \in 1..Cardinality(I) |-> <<zs[At(k)].name, Directive(zs[At(k)].load - ideal)>>]

\* The lines of the report for zs, given the ideal load, the overloaded zones
\* and the adjustments it is to show.
ExpectedLines(zs, ideal, overloads, adjustments) ==
    << "----- Load Balancing Analysis Report -----\n", "Zone Loads:" >>
    \o [i \in 1..Len(zs) |->
          "  - " \o zs[i].name \o ": " \o FormatFloat(zs[i].load) \o " kW"]
    \o << "\nTotal Load: " \o FormatFloat(LoadSum(zs)) \o " kW",
          "Ideal Load Per Zone: " \o FormatFloat(ideal) \o " kW\n" >>
    \o ( IF Len(overloads) > 0
         THEN << "[!]  Overloaded Zones Detected:" >>
              \o [k \in 1..Len(overloads) |->
                    "   - " \o overloads[k].name \o " ("
                        \o FormatFloat(overloads[k].load) \o " kW)"]
         ELSE << "No overloaded zones detected. [v]" >> )
    \o ( IF Len(adjustments) > 0
         THEN << "\nRecommended Adjustments:" >>
              \o [k \in 1..Len(adjustments) |->
                    "   - " \o adjustments[k][1] \o ": " \o adjustments[k][2]]
         ELSE << "\nLoad distribution is optimal. [v]" >> )

\* C6: calculate_ideal_load returns round(total / count, 2) for a non-empty
\* collection and raises ZeroDivisionError for the empty one; that rounded
\* value is the one generate_report shows and recommend_redistribution
\* subtracts from each load.
C6_IdealLoad ==
    IF zones = <<>>
    THEN Called("calculate_ideal_load") =>
            /\ calls["calculate_ideal_load"].status = "raised"
            /\ calls["calculate_ideal_load"].type = "ZeroDivisionError"
    ELSE LET total == LoadSum(zones)
             near == (total \div Len(zones) - 1)..(total \div Len(zones) + 1)
             ideal == CHOOSE v \in near : IsRound2(v, total, Len(zones))
         IN  /\ \E v \in near : IsRound2(v, total, Len(zones))
             /\ Called("calculate_ideal_load") =>
                    calls["calculate_ideal_load"] = Returned(ideal)
             /\ Called("recommend_redistribution") =>
                    calls["recommend_redistribution"]
                        = Returned(ExpectedAdjustments(zones, ideal))
             /\ Called("generate_report") =>
                    calls["generate_report"]
                        = Returned(Join(ExpectedLines(zones, ideal, detect_overloads(zones),
                                                      ExpectedAdjustments(zones, ideal)), "\n"))

\* A collection whose mean is half way between two hundredths (100.125 kW).
C6_Witness ==
    /\ Len(zones) = 2
    /\ 2 * (LoadSum(zones) % 2) = Len(zones)
    /\ ReturnedBy("calculate_ideal_load")
    /\ ReturnedBy("recommend_redistribution")
    /\ ReturnedBy("generate_report")

\* C7: the report of a non-empty collection is, in this order: the header,
\* one line per zone in input order, the total, the ideal load, then the
\* overloaded-zones section listing the zones of detect_overloads if there
\* are any and the "No overloaded zones detected" line otherwise, then the
\* "Recommended Adjustments" section listing the pairs of
\* recommend_redistribution if there are any and the "Load distribution is
\* optimal" line otherwise.
C7_Report ==
    (Called("generate_report") /\ zones # <<>>) =>
        calls["generate_report"]
            = Returned(Join(ExpectedLines(zones,
                                          calculate_ideal_load(zones).value,
                                          detect_overloads(zones),
                                          recommend_redistribution(zones).value), "\n"))

C7_Witness ==
    /\ ReturnedBy("generate_report")
    /\ Len(zones) = 3
    /\ Len(detect_overloads(zones)) = 1
    /\ Len(recommend_redistribution(zones).value) = 2

\* C8: every zone with load > 100.0 is in the result of
\* recommend_redistribution with a "Reduce load by ..." directive.
C8_OverloadedMustReduce ==
    ReturnedBy("recommend_redistribution") =>
        \A i \in 1..Len(zones) :
            zones[i].load > 100 * Centi =>
                \E k \in 1..Len(calls["recommend_redistribution"].value) :
                    \E d \in 1..zones[i].load :
                        calls["recommend_redistribution"].value[k]
                            = <<zones[i].name, "Reduce load by " \o FormatFloat(d) \o " kW">>

\* C10: no function changes the collection it is given, also when it raises:
\* the collection changes only when the caller appends a newly constructed
\* zone (or the demo builds its sample); and while the collection is
\* unchanged a function called again gives the outcome it gave before.
C10_Pure ==
    [][ /\ zones' # zones =>
             \/ /\ construct'.outcome.status = "returned"
                /\ zones' = Append(zones, construct'.outcome.value)
             \/ /\ zones = <<>>
                /\ zones' = sample_zones
        /\ zones' = zones =>
             \A op \in OpNames : Called(op) => calls'[op] = calls[op] ]_vars

C10_Witness ==
    /\ again
    /\ Len(zones) >= 2
    /\ \A op \in OpNames : ReturnedBy(op)

\* The same on the empty collection, where three of the functions raise.
C10_WitnessRaised ==
    /\ again
    /\ zones = <<>>
    /\ \A op \in OpNames : Called(op)
    /\ calls["generate_report"].status = "raised"

----------------------------------------------------------------------------
(***************************************************************************)
(* Binary floating point.  The loads are Python floats (IEEE 754 doubles)  *)
(* and sum() adds them left to right, rounding every partial sum to        *)
(* PRECISION bits, ties to even.  A finite double is [neg, m, e]: the      *)
(* value m * 2^e (negated when neg), m the bits of an odd integer, most    *)
(* significant first, of at most PRECISION bits; zero is the empty m.      *)
(* Exponent overflow and subnormals are out of the range of kW loads.      *)
(***************************************************************************)

\* Bits of the significand of a double.
PRECISION == 53

DoubleZero == [neg |-> FALSE, m |-> <<>>, e |-> 0]

Min(a, b) == IF a < b THEN a ELSE b

Zeros(n) == [k \in 1..n |-> 0]

\* The positions of the first and of the last 1 of a bit string with a 1.
FirstOne(bits) ==
    CHOOSE k \in 1..Len(bits) : bits[k] = 1 /\ \A j \in 1..(k - 1) : bits[j] = 0
LastOne(bits) ==
    CHOOSE k \in 1..Len(bits) : bits[k] = 1 /\ \A j \in (k + 1)..Len(bits) : bits[j] = 0

\* The bits of the natural number n < 2^30, most significant first.
BitsOf(n) ==
    LET len == CHOOSE l \in 0..30 : n < 2 ^ l /\ (l = 0 \/ n >= 2 ^ (l - 1))
    IN  [k \in 1..len |-> (n \div 2 ^ (len - k)) % 2]

StripLeading(bits) ==
    IF \A k \in 1..Len(bits) : bits[k] = 0 THEN <<>>
    ELSE SubSeq(bits, FirstOne(bits), Len(bits))

\* The double of value bits * 2^e in its unique form: an odd m.
Canon(neg, bits, e) ==
    IF \A k \in 1..Len(bits) : bits[k] = 0 THEN DoubleZero
    ELSE [neg |-> neg,
          m |-> SubSeq(bits, FirstOne(bits), LastOne(bits)),
          e |-> e + Len(bits) - LastOne(bits)]

\* x + y for bit strings: bit i from the right of the sum is the sum of the
\* bits i and of the carry into i, which is 1 iff some lower position
\* generates a carry that every position in between propagates.
AddBits(x, y) ==
    LET n == IF Len(x) > Len(y) THEN Len(x) ELSE Len(y)
        X(i) == IF i < Len(x) THEN x[Len(x) - i] ELSE 0
        Y(i) == IF i < Len(y) THEN y[Len(y) - i] ELSE 0
        Carry(i) ==
            IF \E j \in 0..(i - 1) :
                   /\ X(j) + Y(j) = 2
                   /\ \A k \in (j + 1)..(i - 1) : X(k) + Y(k) >= 1
            THEN 1 ELSE 0
    IN  [p \in 1..(n + 1) |->
            LET i == n + 1 - p
            IN  IF i = n THEN Carry(n) ELSE (X(i) + Y(i) + Carry(i)) % 2]

\* bits * 2^e rounded to PRECISION significant bits, ties to even; guard is
\* the first bit dropped and sticky tells whether anything non-zero follows.
RoundEven(neg, bits, e, guard, sticky) ==
    IF guard = 1 /\ (sticky \/ bits[Len(bits)] = 1)
    THEN Canon(neg, AddBits(bits, <<1>>), e)
    ELSE Canon(neg, bits, e)

\* The double nearest to the exact value bits * 2^e (bits without leading 0).
RoundToDouble(neg, bits, e) ==
    IF Len(bits) <= PRECISION THEN Canon(neg, bits, e)
    ELSE RoundEven(neg, SubSeq(bits, 1, PRECISION), e + Len(bits) - PRECISION,
                   bits[PRECISION + 1],
                   \E k \in (PRECISION + 2)..Len(bits) : bits[k] = 1)

\* a + b for doubles a, b >= 0.
DoubleAdd(a, b) ==
    IF a.m = <<>> THEN b
    ELSE IF b.m = <<>> THEN a
    ELSE LET e == Min(a.e, b.e)
         IN  RoundToDouble(FALSE,
                           StripLeading(AddBits(a.m \o Zeros(a.e - e), b.m \o Zeros(b.e - e))),
                           e)

RECURSIVE Pow2Mod(_, _)
\* 2^k modulo den, by squaring.
Pow2Mod(k, den) ==
    IF k = 0 THEN 1 % den
    ELSE LET h == Pow2Mod(k \div 2, den)
         IN  (h * h * (IF k % 2 = 1 THEN 2 ELSE 1)) % den

\* The float the decimal num / den denotes (1 <= den <= 10000), as float()
\* and the literal syntax read it: the nearest double.  Long division: after
\* k binary places the remainder is Rem(k), and place k holds FracBit(k).
DoubleOf(num, den) ==
    LET int == BitsOf(Abs(num) \div den)
        r == Abs(num) % den
        Rem(k) == (r * Pow2Mod(k, den)) % den
        FracBit(k) == (2 * Rem(k - 1)) \div den
        lead == IF int # <<>> \/ r = 0 THEN 0
                ELSE CHOOSE z \in 0..den :
                         FracBit(z + 1) = 1 /\ \A j \in 1..z : FracBit(j) = 0
        places == PRECISION - Len(int) + lead
    IN  RoundEven(num < 0,
                  int \o [k \in 1..(places - lead) |-> FracBit(lead + k)],
                  -places,
                  FracBit(places + 1),
                  Rem(places + 1) # 0)

DoubleNegative(d) == d.neg /\ d.m # <<>>

\* ZoneLoad.__init__ on a float load.
ZoneLoad_init_float(name, load) ==
    IF DoubleNegative(load)
    THEN Raised("ValueError", "Load for zone '" \o name \o "' cannot be negative.")
    ELSE Returned(ZoneLoadRec(name, load))

RECURSIVE SumDoubles(_, _)
\* sum(z.load for z in zones) on floats: left to right from 0.
SumDoubles(zs, acc) ==
    IF zs = <<>> THEN acc ELSE SumDoubles(Tail(zs), DoubleAdd(acc, Head(zs).load))

\* calculate_total_load that would leave the first zone out.
calculate_total_load_float_Tail(zs) ==
    SumDoubles(IF zs = <<>> THEN zs ELSE Tail(zs), DoubleZero)

calculate_total_load_float(zs) == SumDoubles(zs, DoubleZero)

\* The decimal loads (numerator, denominator) the float specification draws.
FloatPool ==
    { <<"Zone A", 1, 10>>, <<"Zone B", 2, 10>>, <<"Zone C", 3, 10>>,
      <<"Zone D", 25, 100>>, <<"Zone E", 100, 1>>, <<"Zone F", 12075, 100>>,
      <<"Zone G", -5, 10>> }

ConstructFloat(name, num, den) ==
    /\ Len(zones) < MaxZones
    /\ LET outcome == ZoneLoad_init_float(name, DoubleOf(num, den))
       IN  /\ construct' = [args |-> <<name, DoubleOf(num, den)>>, outcome |-> outcome]
           /\ IF outcome.status = "returned"
              THEN /\ zones' = Append(zones, outcome.value)
                   /\ calls' = [op \in OpNames |-> NotCalled]
              ELSE UNCHANGED <<zones, calls>>
    /\ again' = FALSE

CalculateTotalLoadFloat ==
    /\ calls' = [calls EXCEPT !["calculate_total_load"]
                                  = Returned(calculate_total_load_float(zones))]
    /\ again' = (calls["calculate_total_load"].status # "not_called")
    /\ UNCHANGED <<zones, construct>>

NextFloat ==
    \/ \E p \in FloatPool : ConstructFloat(p[1], p[2], p[3])
    \/ CalculateTotalLoadFloat

SpecFloat == Init /\ [][NextFloat]_vars

----------------------------------------------------------------------------
\* Properties of the float sum.

\* The permutations of 1..n, and zs rearranged by one of them.
Perms(n) == { f \in [1..n -> 1..n] : \A a, b \in 1..n : a # b => f[a] # f[b] }
Permute(zs, f) == [k \in 1..Len(zs) |-> zs[f[k]]]

\* d is a multiple of 0.25, and the number of quarters it then holds.
IsQuarters(d) == d.m = <<>> \/ d.e >= -2
Quarters(d) ==
    LET V[k \in 0..Len(d.m)] == IF k = 0 THEN 0 ELSE 2 * V[k - 1] + d.m[k]
    IN  V[Len(d.m)] * 2 ^ (d.e + 2)

\* The number of quarters in all of zs, added from the last zone to the first.
QuarterSum(zs) ==
    LET S[k \in 0..Len(zs)] ==
            IF k = 0 THEN 0 ELSE S[k - 1] + Quarters(zs[Len(zs) + 1 - k].load)
    IN  S[Len(zs)]

====
